---- MODULE Spec2Model ----
(***************************************************************************)
(* CivitasDashboard (src/main.py): a Streamlit script.  Every interaction  *)
(* runs main() top to bottom: it loads the whole project list from         *)
(* projects.pkl, dispatches the page the user chose, and writes the whole  *)
(* list back.                                                              *)
(*                                                                         *)
(* Money is a Python float.  The model keeps IEEE-754 round-to-nearest,    *)
(* ties-to-even arithmetic, with the significand narrowed from 53 bits to  *)
(* Prec bits; nan and inf are values of their own.  A finite float is the  *)
(* integer number of grid units it holds, CentUnits units to one cent      *)
(* (0.01 RM), so that values below one cent exist.                         *)
(***************************************************************************)
EXTENDS Integers, Sequences, FiniteSets, TLC

(* ------------------------------ bounds -------------------------------- *)

\* Significand width of the modelled float (binary64 has 53).
Prec == 3

\* Grid units per cent: the finest float increment is 1/CentUnits cent.
CentUnits == 4

\* Most projects the collection holds before Register Project stops firing.
MaxProjects == 2

\* Most tasks + claims + reports in the collection before an appending
\* operation stops firing.
MaxEntries == 2

(* ------------------------------ floats -------------------------------- *)

Fin(n) == [k |-> "fin", v |-> n]

Inf == [k |-> "inf", v |-> 0]

NaN == [k |-> "nan", v |-> 0]

Abs(n) == IF n < 0 THEN 0 - n ELSE n

RECURSIVE Pow2(_)
Pow2(e) == IF e = 0 THEN 1 ELSE 2 * Pow2(e - 1)

\* Spacing of the representable values around magnitude n.
RECURSIVE Ulp(_)
Ulp(n) == IF n < Pow2(Prec) THEN 1 ELSE 2 * Ulp(n \div 2)

\* Round a natural number to Prec significant bits, nearest, ties to even.
FRoundNat(n) ==
  LET u  == Ulp(n)
      lo == (n \div u) * u
      r  == n - lo
  IN  IF r = 0 THEN n
      ELSE IF 2 * r < u THEN lo
      ELSE IF 2 * r > u THEN lo + u
      ELSE IF (lo \div u) % 2 = 0 THEN lo ELSE lo + u

FRound(i) == IF i < 0 THEN 0 - FRoundNat(0 - i) ELSE FRoundNat(i)

\* x - y on floats (y finite).
FSub(x, y) ==
  IF x.k = "nan" \/ y.k = "nan" THEN NaN
  ELSE IF x.k = "inf" THEN Inf
  ELSE Fin(FRound(x.v - y.v))

\* x + y on floats.
FAdd(x, y) ==
  IF x.k = "nan" \/ y.k = "nan" THEN NaN
  ELSE IF x.k = "inf" \/ y.k = "inf" THEN Inf
  ELSE Fin(FRound(x.v + y.v))

\* x > y: every comparison with nan is False.
FGt(x, y) ==
  IF x.k = "nan" \/ y.k = "nan" THEN FALSE
  ELSE IF x.k = "inf" THEN y.k # "inf"
  ELSE IF y.k = "inf" THEN FALSE
  ELSE x.v > y.v

\* x <= y
FLe(x, y) ==
  IF x.k = "nan" \/ y.k = "nan" THEN FALSE
  ELSE IF y.k = "inf" THEN TRUE
  ELSE IF x.k = "inf" THEN FALSE
  ELSE x.v <= y.v

\* x == y: nan is not equal to itself.
FEq(x, y) == x.k # "nan" /\ y.k # "nan" /\ x = y

\* Integer nearest to a / b (b > 0), ties to even.
RoundHalfEven(a, b) ==
  LET q == a \div b
      r == a - q * b
  IN  IF 2 * r < b THEN q
      ELSE IF 2 * r > b THEN q + 1
      ELSE IF q % 2 = 0 THEN q ELSE q + 1

\* round(x, 2): the float nearest to x rounded to whole cents.
Round2(x) ==
  IF x.k # "fin" THEN x
  ELSE Fin(FRound(CentUnits * RoundHalfEven(x.v, CentUnits)))

\* float(text).  A text is "abc" (not a number: ValueError), "nan", "inf",
\* or a decimal literal, given by the number of grid units it denotes.
Dec(n) == [t |-> "dec", n |-> n]

Garbage == [t |-> "abc", n |-> 0]

NanText == [t |-> "nan", n |-> 0]

InfText == [t |-> "inf", n |-> 0]

ParsesAsFloat(text) == text.t # "abc"

float(text) ==
  IF text.t = "nan" THEN NaN
  ELSE IF text.t = "inf" THEN Inf
  ELSE Fin(FRound(text.n))

(* ------------------------------ records ------------------------------- *)

\* A date text is a calendar date (its day number d) or not a date at all.
DateText(d) == [ok |-> TRUE, d |-> d]

BadDateText == [ok |-> FALSE, d |-> 0]

\* What one run of a handler leaves behind: the list it worked on, whether
\* it called save_projects, whether an exception left main(), and the
\* st.error / st.success messages it showed.
Result(projects, saved, raised, out) ==
  [projects |-> projects, saved |-> saved, raised |-> raised, out |-> out]

\* Positions of the projects whose id is project_id, in list order.
Matches(projects, project_id) ==
  {i \in 1..Len(projects) : projects[i].id = project_id}

Min(S) == CHOOSE i \in S : \A j \in S : i <= j

\* The matching positions in the order the for loop meets them.
RECURSIVE InOrder(_)
InOrder(S) ==
  IF S = {} THEN <<>> ELSE <<Min(S)>> \o InOrder(S \ {Min(S)})

\* Widgets drawn twice in one run raise DuplicateWidgetID: the loops of
\* manage_tasks and manage_interim_claims draw the same widgets for every
\* matching project, so the second match raises before it changes anything.
DuplicateWidgets(projects, project_id) ==
  Cardinality(Matches(projects, project_id)) >= 2

(* --------------------------- persistence ------------------------------ *)

NoFile == [exists |-> FALSE, projects |-> <<>>]

\* pickle.load of projects.pkl, [] when the file is missing.  pickle keeps
\* lists, dicts, strings and floats (nan and inf too) as they are.
load_projects(file) == IF file.exists THEN file.projects ELSE <<>>

\* pickle.dump: the file holds the whole list, whatever it held before.
save_projects(projects) == [exists |-> TRUE, projects |-> projects]

(* ----------------------------- handlers ------------------------------- *)

\* register_project with the budget test written "< 0": a budget of 0 passes.
register_project_zero_ok(projects, inputs) ==
  IF ~inputs.start.ok \/ ~inputs.end.ok
    THEN Result(projects, FALSE, FALSE, {"Input Error"})
  ELSE IF inputs.end.d < inputs.start.d
    THEN Result(projects, FALSE, FALSE, {"Input Error"})
  ELSE IF ~ParsesAsFloat(inputs.budget)
    THEN Result(projects, FALSE, FALSE, {"Please enter a valid budget"})
  ELSE IF FGt(Fin(0), float(inputs.budget))
    THEN Result(projects, FALSE, FALSE, {"Please enter a valid budget"})
  ELSE
    Result(Append(projects,
                  [name |-> inputs.name, id |-> inputs.id,
                   client |-> inputs.client, start_date |-> inputs.start.d,
                   end_date |-> inputs.end.d,
                   budget |-> Round2(float(inputs.budget)), progress |-> 0,
                   task_list |-> <<>>, interim_claims |-> <<>>,
                   reports |-> <<>>, elements_progress |-> <<>>]),
           TRUE, FALSE, {"registered"})

\* register_project(projects, inputs)
register_project(projects, inputs) ==
  IF ~inputs.start.ok \/ ~inputs.end.ok
    THEN Result(projects, FALSE, FALSE, {"Input Error"})
  ELSE IF inputs.end.d < inputs.start.d
    THEN Result(projects, FALSE, FALSE, {"Input Error"})
  ELSE IF ~ParsesAsFloat(inputs.budget)
    THEN Result(projects, FALSE, FALSE, {"Please enter a valid budget"})
  ELSE IF FLe(float(inputs.budget), Fin(0))
    THEN Result(projects, FALSE, FALSE, {"Please enter a valid budget"})
  ELSE
    LET project == [name              |-> inputs.name,
                    id                |-> inputs.id,
                    client            |-> inputs.client,
                    start_date        |-> inputs.start.d,
                    end_date          |-> inputs.end.d,
                    budget            |-> Round2(float(inputs.budget)),
                    progress          |-> 0,
                    task_list         |-> <<>>,
                    interim_claims    |-> <<>>,
                    reports           |-> <<>>,
                    elements_progress |-> <<>>]
    IN  Result(Append(projects, project), TRUE, FALSE, {"registered"})

\* manage_tasks assigning a new task_list instead of appending to it.
manage_tasks_overwrite(projects, project_id, click, task) ==
  IF Matches(projects, project_id) = {} THEN Result(projects, FALSE, FALSE, {})
  ELSE
    LET i == Min(Matches(projects, project_id))
        raised == DuplicateWidgets(projects, project_id)
    IN  IF click
          THEN Result([projects EXCEPT ![i].task_list = <<task>>],
                      TRUE, raised, {"Task added"})
          ELSE Result(projects, FALSE, raised, {})

\* manage_tasks(projects, project_id) with the Add Task button pressed
\* (click) or not.
manage_tasks(projects, project_id, click, task) ==
  IF Matches(projects, project_id) = {} THEN Result(projects, FALSE, FALSE, {})
  ELSE
    LET i == Min(Matches(projects, project_id))
        raised == DuplicateWidgets(projects, project_id)
    IN  IF click
          THEN Result([projects EXCEPT ![i].task_list = Append(@, task)],
                      TRUE, raised, {"Task added"})
          ELSE Result(projects, FALSE, raised, {})

\* add_claim without the budget test.
add_claim_unchecked(project, claim_amount, claim_date, claim_status) ==
  [project |->
     [project EXCEPT
        !.interim_claims = Append(@, [amount |-> claim_amount,
                                      date   |-> claim_date,
                                      status |-> claim_status]),
        !.budget = FSub(@, claim_amount)],
   saved |-> TRUE,
   out |-> {"Interim Claim added"}]

\* add_claim with the budget test written ">=": a claim of the whole
\* budget is turned down.
add_claim_strict(project, claim_amount, claim_date, claim_status) ==
  IF ~FGt(project.budget, claim_amount)
    THEN [project |-> project, saved |-> FALSE,
          out |-> {"Claim amount exceeds the remaining budget!"}]
    ELSE add_claim_unchecked(project, claim_amount, claim_date, claim_status)

\* The Add Interim Claim branch of manage_interim_claims.
add_claim(project, claim_amount, claim_date, claim_status) ==
  IF FGt(claim_amount, project.budget)
    THEN [project |-> project, saved |-> FALSE,
          out |-> {"Claim amount exceeds the remaining budget!"}]
    ELSE [project |->
            [project EXCEPT
               !.interim_claims = Append(@, [amount |-> claim_amount,
                                             date   |-> claim_date,
                                             status |-> claim_status]),
               !.budget = FSub(@, claim_amount)],
          saved |-> TRUE,
          out |-> {"Interim Claim added"}]

\* update_status giving the amount back to the budget on "Rejected".
update_status_refund(project, claim_to_update, updated_status) ==
  [project EXCEPT
     !.interim_claims[claim_to_update].status = updated_status,
     !.budget = IF updated_status = "Rejected"
                  THEN FAdd(@, project.interim_claims[claim_to_update].amount)
                  ELSE @]

\* The Update Status branch of manage_interim_claims; claim_to_update is a
\* position of range(len(interim_claims)), counted from 1 here.
update_status(project, claim_to_update, updated_status) ==
  [project EXCEPT !.interim_claims[claim_to_update].status = updated_status]

\* manage_interim_claims(projects, project_id): button is "add", "update"
\* or "none" (one button at most is pressed in a run).
manage_interim_claims(projects, project_id, button, w) ==
  IF Matches(projects, project_id) = {} THEN Result(projects, FALSE, FALSE, {})
  ELSE
    LET i == Min(Matches(projects, project_id))
        raised == DuplicateWidgets(projects, project_id)
        added  == add_claim(projects[i], w.amount, w.date, w.status)
    IN  IF button = "add"
          THEN Result([projects EXCEPT ![i] = added.project],
                      added.saved, raised, added.out)
        ELSE IF button = "update" /\ w.index \in 1..Len(projects[i].interim_claims)
          THEN Result([projects EXCEPT
                         ![i] = update_status(@, w.index, w.status)],
                      TRUE, raised, {"Claim status updated"})
        ELSE Result(projects, FALSE, raised, {})

\* sum(claim["amount"] for claim in interim_claims): left to right from 0.
RECURSIVE SumAmounts(_, _)
SumAmounts(acc, claims) ==
  IF claims = <<>> THEN acc
  ELSE SumAmounts(FAdd(acc, Head(claims).amount), Tail(claims))

\* display_total_claims(project): the total it shows.
total_claims(project) == SumAmounts(Fin(0), project.interim_claims)

\* The projects the loop of upload_project_document appends to.  The
\* append comes before the preview; a PDF preview draws a download button,
\* which raises on the second matching project, after its append.
UploadTargets(projects, project_id, doc) ==
  LET ms == InOrder(Matches(projects, project_id))
  IN  IF doc.type = "application/pdf" /\ Len(ms) > 2
        THEN {ms[1], ms[2]}
        ELSE {ms[j] : j \in 1..Len(ms)}

\* upload_project_document(projects, project_id, document_file); io_ok says
\* whether makedirs and the file write succeed.
upload_project_document(projects, project_id, doc, io_ok) ==
  LET ms == Matches(projects, project_id)
      path == <<"project_docs", project_id, doc.name>>
      dup_preview == doc.type = "application/pdf" /\ Cardinality(ms) >= 2
  IN  IF ms = {} THEN Result(projects, FALSE, FALSE, {})
      ELSE IF ~io_ok
        THEN Result(projects, FALSE, FALSE, {"Error uploading document"})
      ELSE Result(
             [i \in 1..Len(projects) |->
                IF i \in UploadTargets(projects, project_id, doc)
                  THEN [projects[i] EXCEPT !.reports = Append(@, path)]
                  ELSE projects[i]],
             TRUE, FALSE,
             {"Document uploaded"} \cup
               (IF dup_preview THEN {"Error uploading document"} ELSE {}))

\* update_progress(project): elements_progress is a sequence of
\* [progress, weight] (the mapping's values); the result is in hundredths
\* of a percent, round(weighted_sum / total_weight, 2).
RECURSIVE WeightedSum(_)
WeightedSum(es) ==
  IF es = <<>> THEN 0
  ELSE Head(es).progress * Head(es).weight + WeightedSum(Tail(es))

RECURSIVE TotalWeight(_)
TotalWeight(es) ==
  IF es = <<>> THEN 0 ELSE Head(es).weight + TotalWeight(Tail(es))

\* update_progress averaging the progress values without their weights.
update_progress_unweighted(project) ==
  LET es == project.elements_progress
      RECURSIVE SumProgress(_)
      SumProgress(q) ==
        IF q = <<>> THEN 0 ELSE Head(q).progress + SumProgress(Tail(q))
  IN  IF Len(es) = 0 THEN 0
      ELSE RoundHalfEven(100 * SumProgress(es), Len(es))

update_progress(project) ==
  LET es == project.elements_progress
  IN  IF Len(es) = 0 THEN 0
      ELSE IF TotalWeight(es) > 0
        THEN RoundHalfEven(100 * WeightedSum(es), TotalWeight(es))
        ELSE 0

(* ------------------------- one run of main() -------------------------- *)

\* The widget values of one run.  A widget the page does not draw keeps the
\* value given here.
NoUi ==
  [submit   |-> FALSE,
   inputs   |-> [name |-> "", id |-> "", client |-> "",
                 start |-> BadDateText, end |-> BadDateText, budget |-> Garbage],
   add_task |-> FALSE,
   task     |-> [task_name |-> "", status |-> "Not Started",
                 assignee |-> "", deadline |-> 0],
   button   |-> "none",
   w        |-> [amount |-> Fin(0), date |-> 0, status |-> "Pending", index |-> 0],
   has_file |-> FALSE,
   doc      |-> [name |-> "", type |-> ""],
   io_ok    |-> TRUE]

Idle(projects) == Result(projects, FALSE, FALSE, {})

\* The dispatch of main(): choice is the sidebar radio, sel the project id
\* the page's selectbox returned ("" also stands for None: both are falsy,
\* and None is returned only when there is no project to match).
Dispatch(projects, choice, sel, ui) ==
  CASE choice = "Register Project" ->
         IF ui.submit THEN register_project(projects, ui.inputs)
         ELSE Idle(projects)
    [] choice = "Tasks" ->
         IF sel # "" THEN manage_tasks(projects, sel, ui.add_task, ui.task)
         ELSE Idle(projects)
    [] choice = "Interim Claims" ->
         IF sel # "" THEN manage_interim_claims(projects, sel, ui.button, ui.w)
         ELSE Idle(projects)
    [] choice = "Documents" ->
         IF ui.has_file
           THEN upload_project_document(projects, sel, ui.doc, ui.io_ok)
           ELSE Idle(projects)
    [] OTHER -> Idle(projects)

\* The file after the run: the handler's own save, then the save that ends
\* main(), which an exception leaving main() skips.
FileAfter(file, res) ==
  IF res.raised
    THEN IF res.saved THEN save_projects(res.projects) ELSE file
    ELSE save_projects(res.projects)

\* main(): load, dispatch, save.
main(file, choice, sel, ui) ==
  LET res == Dispatch(load_projects(file), choice, sel, ui)
  IN  [file |-> FileAfter(file, res), out |-> res.out]

(* ------------------------------ inputs -------------------------------- *)

Menu == {"Home", "Register Project", "View Projects", "Tasks",
         "Interim Claims", "Documents"}

Statuses == {"Pending", "Approved", "Rejected"}

ProjectIds == {"a", "b"}

\* Budget texts: not a number, nan, inf, negative, zero, a quarter of a
\* cent, five cents.
BudgetTexts ==
  {Garbage, NanText, Dec(0 - CentUnits), Dec(0), Dec(1),
   Dec(5 * CentUnits)}

\* (start, end) date texts: unparseable, end before start, in order.
DatePairs ==
  {<<BadDateText, DateText(1)>>, <<DateText(2), DateText(1)>>,
   <<DateText(1), DateText(2)>>}

RegisterInputs ==
  {[name |-> "n", id |-> id, client |-> "c",
    start |-> dp[1], end |-> dp[2], budget |-> b] :
     id \in ProjectIds, dp \in DatePairs, b \in BudgetTexts}

\* The budget a registration with the text "0.05" stores.
FiveCents == Round2(float(Dec(5 * CentUnits)))

\* Claim amounts st.number_input(min_value=0.0) returns: nothing, two grid
\* units, five cents.
ClaimAmounts == {Fin(0), Fin(2), FiveCents}

Documents == {[name |-> "r.pdf", type |-> "application/pdf"],
              [name |-> "s.png", type |-> "image/png"]}

Tasks == {[task_name |-> "t", status |-> st, assignee |-> "m", deadline |-> 1] :
            st \in {"Not Started", "Completed"}}

(* ------------------------------- state -------------------------------- *)

VARIABLES
  store,       \* projects.pkl
  out,         \* what the last sequential run showed with st.error / st.success
  registered,  \* history: the budget each project was registered with
  pc,          \* per session: where its run of main() stands
  projects,    \* per session: the list main() loaded and works on
  loaded,      \* history, per session: the list as load_projects returned it
  did,         \* history, per session: the page and widget values of its run
  lastSaver,   \* history: the session whose save_projects ran last (0: none)
  raced,       \* history: both sessions loaded before any save
  subject,     \* the project update_progress is called on
  progress     \* the last call of update_progress: its argument and result

vars == <<store, out, registered, pc, projects, loaded, did, lastSaver, raced,
          subject, progress>>

raceVars == <<pc, projects, loaded, did, lastSaver, raced>>

progressVars == <<subject, progress>>

Sessions == {1, 2}

NoRun == [choice |-> "Home", sel |-> "", ui |-> NoUi]

EmptyProject ==
  [name |-> "n", id |-> "a", client |-> "c", start_date |-> 1, end_date |-> 2,
   budget |-> FiveCents, progress |-> 0, task_list |-> <<>>,
   interim_claims |-> <<>>, reports |-> <<>>, elements_progress |-> <<>>]

NotCalled == [called |-> FALSE, arg |-> EmptyProject, value |-> 0]

InitCommon ==
  /\ out = {}
  /\ registered = <<>>
  /\ pc = [s \in Sessions |-> "idle"]
  /\ projects = [s \in Sessions |-> <<>>]
  /\ loaded = [s \in Sessions |-> <<>>]
  /\ did = [s \in Sessions |-> NoRun]
  /\ lastSaver = 0
  /\ raced = FALSE
  /\ subject = EmptyProject
  /\ progress = NotCalled

\* Before the first run there is no projects.pkl.
Init == store = NoFile /\ InitCommon

(* --------------------- sequential interactions ------------------------ *)

Entries(ps) ==
  LET RECURSIVE Count(_)
      Count(i) ==
        IF i = 0 THEN 0
        ELSE Len(ps[i].task_list) + Len(ps[i].interim_claims)
             + Len(ps[i].reports) + Count(i - 1)
  IN  Count(Len(ps))

IdsOf(ps) == {ps[i].id : i \in 1..Len(ps)}

\* The value a page's selectbox returns: one of the ids, None without any.
Selectable(ps) == IF ps = <<>> THEN {""} ELSE IdsOf(ps)

\* One whole run of main() by the only session.
Run(choice, sel, ui) ==
  LET r == main(store, choice, sel, ui)
  IN  /\ store' = r.file
      /\ out' = r.out
      /\ registered' =
           IF Len(r.file.projects) > Len(registered)
             THEN Append(registered,
                         r.file.projects[Len(r.file.projects)].budget)
             ELSE registered
      /\ UNCHANGED <<raceVars, progressVars>>

\* Home, View Projects, or a page drawn with no button pressed.
Browse ==
  \E choice \in Menu : \E sel \in Selectable(load_projects(store)) :
    Run(choice, sel, NoUi)

\* The Register Project form submitted.
RegisterWith(inputs) ==
  Run("Register Project", "", [NoUi EXCEPT !.submit = TRUE, !.inputs = inputs])

RegisterProject ==
  /\ Len(load_projects(store)) < MaxProjects
  /\ \E inputs \in RegisterInputs : RegisterWith(inputs)

\* The Tasks page with Add Task pressed.
AddTaskWith(sel, task) ==
  Run("Tasks", sel, [NoUi EXCEPT !.add_task = TRUE, !.task = task])

AddTask ==
  /\ Entries(load_projects(store)) < MaxEntries
  /\ \E sel \in Selectable(load_projects(store)) : \E task \in Tasks :
       AddTaskWith(sel, task)

\* The Interim Claims page with Add Interim Claim pressed.
AddClaimWith(sel, amount, date, status) ==
  Run("Interim Claims", sel,
      [NoUi EXCEPT !.button = "add",
                   !.w = [amount |-> amount, date |-> date,
                          status |-> status, index |-> 0]])

AddClaim ==
  /\ Entries(load_projects(store)) < MaxEntries
  /\ \E sel \in Selectable(load_projects(store)) :
     \E amount \in ClaimAmounts : \E status \in Statuses :
       AddClaimWith(sel, amount, 1, status)

\* The project a page works on for the selected id: the first match.
Target(ps, sel) == Min(Matches(ps, sel))

\* The Interim Claims page with Update Status pressed; the selectbox offers
\* the positions of the claims of the project the page works on.
UpdateStatusWith(sel, index, status) ==
  /\ sel # ""
  /\ Matches(load_projects(store), sel) # {}
  /\ index \in 1..Len(load_projects(store)[Target(load_projects(store), sel)]
                        .interim_claims)
  /\ Run("Interim Claims", sel,
         [NoUi EXCEPT !.button = "update",
                      !.w = [amount |-> Fin(0), date |-> 1,
                             status |-> status, index |-> index]])

UpdateStatus ==
  \E sel \in Selectable(load_projects(store)) :
  \E index \in 1..(MaxEntries + 1) : \E status \in Statuses :
    UpdateStatusWith(sel, index, status)

\* The Documents page with a file in the uploader.
UploadWith(sel, doc, io_ok) ==
  Run("Documents", sel,
      [NoUi EXCEPT !.has_file = TRUE, !.doc = doc, !.io_ok = io_ok])

Upload ==
  /\ Entries(load_projects(store)) < MaxEntries
  /\ \E sel \in Selectable(load_projects(store)) :
     \E doc \in Documents : \E io_ok \in BOOLEAN :
       UploadWith(sel, doc, io_ok)

Next ==
  \/ Browse
  \/ RegisterProject
  \/ AddTask
  \/ AddClaim
  \/ UpdateStatus
  \/ Upload

Spec == Init /\ [][Next]_vars

(* ------------------- claims on sequential interactions ---------------- *)

Stored == load_projects(store)

ExceedsMsg == {"Claim amount exceeds the remaining budget!"}

\* C1: an Add Interim Claim whose amount is greater than the budget of the
\* project the page works on reports the error and leaves that project's
\* budget and interim_claims as they were.
C1_RejectedClaimChangesNothing ==
  [][\A sel \in ProjectIds : \A amount \in ClaimAmounts : \A status \in Statuses :
       (/\ Matches(Stored, sel) # {}
        /\ FGt(amount, Stored[Target(Stored, sel)].budget)
        /\ AddClaimWith(sel, amount, 1, status))
       => LET i == Target(Stored, sel)
          IN  /\ out' = ExceedsMsg
              /\ Len(load_projects(store')) = Len(Stored)
              /\ load_projects(store')[i].budget = Stored[i].budget
              /\ load_projects(store')[i].interim_claims = Stored[i].interim_claims
    ]_vars

\* A claim was accepted, and a later one, larger than what is left, was
\* rejected.
C1_Witness ==
  /\ out = ExceedsMsg
  /\ \E i \in 1..Len(Stored) :
       /\ Stored[i].interim_claims # <<>>
       /\ Stored[i].budget.k = "fin"
       /\ \E amount \in ClaimAmounts : FGt(amount, Stored[i].budget)

NonNumeric(text) == ~ParsesAsFloat(text)

\* The text parses to a number that is <= 0.
NotPositive(text) == ParsesAsFloat(text) /\ FLe(float(text), Fin(0))

RegistrationErrors == {{"Input Error"}, {"Please enter a valid budget"}}

OnlyStatusAt(old, new, index, status) ==
  /\ [new EXCEPT !.interim_claims = <<>>] = [old EXCEPT !.interim_claims = <<>>]
  /\ Len(new.interim_claims) = Len(old.interim_claims)
  /\ \A k \in 1..Len(old.interim_claims) :
       /\ new.interim_claims[k].amount = old.interim_claims[k].amount
       /\ new.interim_claims[k].date = old.interim_claims[k].date
       /\ new.interim_claims[k].status =
            IF k = index THEN status ELSE old.interim_claims[k].status

\* C4: Update Status on the claim at a position writes that claim's status
\* and nothing else: the budget, every amount and date, every other claim's
\* status, and the length and order of interim_claims stay.
C4_UpdateStatusWritesOnlyStatus ==
  [][\A sel \in ProjectIds : \A index \in 1..(MaxEntries + 1) :
     \A status \in Statuses :
       UpdateStatusWith(sel, index, status)
       => LET i == Target(Stored, sel)
          IN  /\ Len(load_projects(store')) = Len(Stored)
              /\ OnlyStatusAt(Stored[i], load_projects(store')[i], index, status)
    ]_vars

\* A project with two claims of different status, after an update,
\* one of them no longer with the status it was added with.
C4_Witness ==
  /\ out = {"Claim status updated"}
  /\ \E i \in 1..Len(Stored) :
       /\ Len(Stored[i].interim_claims) = 2
       /\ Stored[i].interim_claims[1].status = "Rejected"
       /\ Stored[i].interim_claims[2].status = "Approved"
       /\ Stored[i].interim_claims[1].amount # Fin(0)

IsPrefix(s, t) == Len(s) <= Len(t) /\ \A k \in 1..Len(s) : t[k] = s[k]

ClearStatus(claims) ==
  [k \in 1..Len(claims) |-> [claims[k] EXCEPT !.status = ""]]

\* new holds everything old holds, at the same positions; only a claim's
\* status (and a project's budget, which claims draw on) may differ.
AppendOnly(old, new) ==
  /\ Len(old) <= Len(new)
  /\ \A i \in 1..Len(old) :
       /\ new[i].id = old[i].id
       /\ new[i].name = old[i].name
       /\ new[i].client = old[i].client
       /\ new[i].start_date = old[i].start_date
       /\ new[i].end_date = old[i].end_date
       /\ IsPrefix(old[i].task_list, new[i].task_list)
       /\ IsPrefix(old[i].reports, new[i].reports)
       /\ IsPrefix(ClearStatus(old[i].interim_claims),
                   ClearStatus(new[i].interim_claims))

\* C6: under sequential interactions the project list and every project's
\* task_list, interim_claims and reports never shrink, and every entry
\* keeps its position.
C6_AppendOnly == [][AppendOnly(Stored, load_projects(store'))]_vars

\* Two projects, and one of them with a task and a report.
C6_Witness ==
  /\ Len(Stored) = 2
  /\ \E i \in 1..2 : Len(Stored[i].task_list) = 1 /\ Len(Stored[i].reports) = 1

\* C7: every stored project has budget >= 0.
C7_BudgetNonNegative ==
  \A i \in 1..Len(Stored) : FLe(Fin(0), Stored[i].budget)

\* C9: for every stored project, budget + total_claims equals the budget it
\* was registered with.  Stated for the projects registered with a finite
\* budget: a nan budget (C7) is equal to nothing, itself included.
C9_BudgetConservation ==
  \A i \in 1..Len(Stored) :
    registered[i].k = "fin"
    => FEq(FAdd(Stored[i].budget, total_claims(Stored[i])), registered[i])

Changed(old, new) == {i \in 1..Len(old) : new[i] # old[i]}

IsProjectOperation ==
  \/ \E sel \in ProjectIds : \E task \in Tasks : AddTaskWith(sel, task)
  \/ \E sel \in ProjectIds : \E amount \in ClaimAmounts : \E status \in Statuses :
       AddClaimWith(sel, amount, 1, status)
  \/ \E sel \in ProjectIds : \E index \in 1..(MaxEntries + 1) :
     \E status \in Statuses : UpdateStatusWith(sel, index, status)
  \/ \E sel \in ProjectIds : \E doc \in Documents : \E io_ok \in BOOLEAN :
       UploadWith(sel, doc, io_ok)

\* C10: an add-task, add-claim, update-status or upload run changes at most
\* one project record and leaves every other record as it was, also when
\* two projects carry the same id.
C10_OneRecordMutated ==
  [][IsProjectOperation
       => /\ Len(load_projects(store')) = Len(Stored)
          /\ Cardinality(Changed(Stored, load_projects(store'))) <= 1
    ]_vars

(* ------------------------- two racing sessions ------------------------ *)

\* Streamlit runs each browser session's script in a thread of its own; the
\* file is the only thing they share, and nothing locks it.

\* A session reading the file again before its handler runs.
SessionProjectsReloaded(s) == load_projects(store)

\* The list a session's handlers work on: the one main() loaded at its top.
SessionProjects(s) == projects[s]

Other(s) == CHOOSE o \in Sessions : o # s

\* Files the sessions may find: none, one registered project, one project
\* with a claim on it.
RaceStores ==
  {NoFile,
   save_projects(<<EmptyProject>>),
   save_projects(<<add_claim(EmptyProject, Fin(2), 1, "Pending").project>>)}

\* The runs a session may make on the list it loaded.
RaceRuns(ps) ==
  {[choice |-> "Home", sel |-> "", ui |-> NoUi]}
  \cup {[choice |-> "Register Project", sel |-> "",
         ui |-> [NoUi EXCEPT !.submit = TRUE,
                             !.inputs = [name |-> "n", id |-> id, client |-> "c",
                                         start |-> DateText(1), end |-> DateText(2),
                                         budget |-> Dec(5 * CentUnits)]]] :
          id \in ProjectIds}
  \cup {[choice |-> "Tasks", sel |-> sel,
         ui |-> [NoUi EXCEPT !.add_task = TRUE, !.task = task]] :
          sel \in Selectable(ps), task \in Tasks}
  \cup {[choice |-> "Interim Claims", sel |-> sel,
         ui |-> [NoUi EXCEPT !.button = "add",
                             !.w = [amount |-> Fin(2), date |-> 1,
                                    status |-> "Approved", index |-> 0]]] :
          sel \in Selectable(ps)}
  \cup {[choice |-> "Interim Claims", sel |-> sel,
         ui |-> [NoUi EXCEPT !.button = "update",
                             !.w = [amount |-> Fin(0), date |-> 1,
                                    status |-> status, index |-> 1]]] :
          sel \in Selectable(ps), status \in {"Approved", "Rejected"}}
  \cup {[choice |-> "Documents", sel |-> sel,
         ui |-> [NoUi EXCEPT !.has_file = TRUE, !.doc = doc]] :
          sel \in Selectable(ps), doc \in Documents}

RaceInit == store \in RaceStores /\ InitCommon

\* projects = load_projects()
SessionLoad(s) ==
  /\ pc[s] = "idle"
  /\ pc' = [pc EXCEPT ![s] = "loaded"]
  /\ projects' = [projects EXCEPT ![s] = load_projects(store)]
  /\ loaded' = [loaded EXCEPT ![s] = load_projects(store)]
  /\ raced' = (pc[Other(s)] = "loaded" /\ lastSaver = 0)
  /\ UNCHANGED <<store, out, registered, did, lastSaver, progressVars>>

\* The page's handler, with the save_projects it calls itself.
SessionHandle(s) ==
  /\ pc[s] = "loaded"
  /\ \E run \in RaceRuns(SessionProjects(s)) :
       LET res == Dispatch(SessionProjects(s), run.choice, run.sel, run.ui)
       IN  /\ did' = [did EXCEPT ![s] = run]
           /\ projects' = [projects EXCEPT ![s] = res.projects]
           /\ pc' = [pc EXCEPT ![s] = IF res.raised THEN "done" ELSE "handled"]
           /\ store' = IF res.saved THEN save_projects(res.projects) ELSE store
           /\ lastSaver' = IF res.saved THEN s ELSE lastSaver
  /\ UNCHANGED <<out, registered, loaded, raced, progressVars>>

\* The save_projects(projects) that ends main().
SessionSave(s) ==
  /\ pc[s] = "handled"
  /\ pc' = [pc EXCEPT ![s] = "done"]
  /\ store' = save_projects(projects[s])
  /\ lastSaver' = s
  /\ UNCHANGED <<out, registered, projects, loaded, did, raced, progressVars>>

RaceNext ==
  \/ \E s \in Sessions : SessionLoad(s)
  \/ \E s \in Sessions : SessionHandle(s)
  \/ \E s \in Sessions : SessionSave(s)

SpecRace == RaceInit /\ [][RaceNext]_vars

RaceOver == raced /\ \A s \in Sessions : pc[s] = "done"

\* C5: when both sessions loaded before either saved and both have ended,
\* the file holds the whole list of the session that saved last, which is
\* what that session's run alone makes of the list both loaded: nothing of
\* the other session's run is in it.
C5_LastWriteWins ==
  RaceOver
  => /\ lastSaver \in Sessions
     /\ loaded[1] = loaded[2]
     /\ load_projects(store) = projects[lastSaver]
     /\ load_projects(store) =
          Dispatch(loaded[lastSaver], did[lastSaver].choice,
                   did[lastSaver].sel, did[lastSaver].ui).projects

\* Both sessions changed the list they loaded, in different ways, and the
\* file holds only the last saver's list.
C5_Witness ==
  /\ RaceOver
  /\ lastSaver \in Sessions
  /\ \A s \in Sessions : projects[s] # loaded[s]
  /\ projects[1] # projects[2]
  /\ load_projects(store) # projects[Other(lastSaver)]

(* -------------------------- update_progress --------------------------- *)

\* Most elements in an elements_progress mapping.
MaxElements == 2

ProgressValues == {0, 50, 100, 150}

WeightValues == {0 - 1, 0, 1, 2}

Elements == [progress : ProgressValues, weight : WeightValues]

RECURSIVE SeqsUpTo(_, _)
SeqsUpTo(S, n) ==
  IF n = 0 THEN {<<>>}
  ELSE LET shorter == SeqsUpTo(S, n - 1)
       IN  shorter \cup {Append(q, e) : q \in {x \in shorter : Len(x) = n - 1},
                                        e \in S}

ProgressInit ==
  /\ store = NoFile
  /\ out = {}
  /\ registered = <<>>
  /\ pc = [s \in Sessions |-> "idle"]
  /\ projects = [s \in Sessions |-> <<>>]
  /\ loaded = [s \in Sessions |-> <<>>]
  /\ did = [s \in Sessions |-> NoRun]
  /\ lastSaver = 0
  /\ raced = FALSE
  /\ progress = NotCalled
  /\ \E es \in SeqsUpTo(Elements, MaxElements) :
       subject = [EmptyProject EXCEPT !.elements_progress = es]

\* A call update_progress(subject).
CallUpdateProgress ==
  /\ ~progress.called
  /\ progress' = [called |-> TRUE, arg |-> subject,
                  value |-> update_progress(subject)]
  /\ UNCHANGED <<store, out, registered, raceVars, subject>>

ProgressNext == CallUpdateProgress

SpecProgress == ProgressInit /\ [][ProgressNext]_vars

\* value (in hundredths) is sum / weight rounded to two decimals.
IsRounded(value, sum, weight) == 2 * Abs(value * weight - 100 * sum) <= weight

ProgressContract(project, value) ==
  LET es == project.elements_progress
  IN  /\ 0 <= value /\ value <= 100 * 100
      /\ es = <<>> => value = 0
      /\ TotalWeight(es) = 0 => value = 0
      /\ (es # <<>> /\ TotalWeight(es) # 0)
           => IsRounded(value, WeightedSum(es), TotalWeight(es))

\* C8 as claimed: for any mapping the result is in [0, 100], 0 for an empty
\* mapping or a total weight of 0 and the rounded weighted average
\* otherwise, and the project is as it was.
C8_AnyMapping ==
  progress.called
  => /\ ProgressContract(progress.arg, progress.value)
     /\ subject = progress.arg

InDomain(es) ==
  \A k \in 1..Len(es) :
    /\ 0 <= es[k].progress /\ es[k].progress <= 100
    /\ es[k].weight >= 0

\* C8 as amended: the same, for the mappings whose progress values are in
\* [0, 100] and whose weights are not negative.
C8_MappingInDomain ==
  (progress.called /\ InDomain(progress.arg.elements_progress))
  => /\ ProgressContract(progress.arg, progress.value)
     /\ subject = progress.arg

\* foundation 50 with weight 2, roof 100 with weight 1: 66.67.
C8_Witness ==
  /\ progress.called
  /\ progress.arg.elements_progress =
       <<[progress |-> 50, weight |-> 2], [progress |-> 100, weight |-> 1]>>
  /\ progress.value = 6667

====
